---- MODULE Spec2Model ----
(***************************************************************************)
(* Fork-per-connection daemon of simple_cpp_server: the accept / fork /    *)
(* signal control loop of src/server2.cpp and src/server.cpp.              *)
(*                                                                         *)
(* Every OS process (the daemon, pid 0, and the workers it forks) is a     *)
(* record holding the members of its `server` object and the state of its  *)
(* io_service.  One action is one completion handler run by                *)
(* io_service::run(), or one event of the environment (a connection, a     *)
(* failed accept, a signal).  Handlers are serialized per process by the   *)
(* single-threaded event loop, so each handler is one atomic step.         *)
(***************************************************************************)
EXTENDS Integers, Sequences, FiniteSets, TLC

\* ---------------------------------------------------------------- bounds
MaxConns     == 2   \* connections the environment makes (one worker pid each)
MaxSignals   == 2   \* signals sent by the environment (kill)
MaxErrStreak == 2   \* consecutive failed accepts the environment produces
LiveConns     == 2
LiveSignals   == 1
LiveErrStreak == 1

\* ------------------------------------------------------------- vocabulary
Builds  == {"server2", "server"}          \* the two daemons of the repository
Signals == {"SIGINT", "SIGTERM", "SIGCHLD"}
DaemonPid == 0
NoPid     == -1
Pids      == 0..MaxConns
WorkerPids == 1..MaxConns

VARIABLES
  build,      \* which daemon is running: "server2" or "server"
  procs,      \* pid -> process record
  conns,      \* number of connections the environment has made so far
  sent,       \* number of signals the environment has sent so far
  errStreak,  \* accept errors handled in a row since the last served accept
  last,       \* description of the step just taken (handler, inputs, trace)
  startup,    \* main() of the daemon: its argument, how far it got, its result
  codec       \* the client's message on its way: fields, wire bytes, decoding

vars == <<build, procs, conns, sent, errStreak, last, startup, codec>>

\* ------------------------------------------------------- sequence helpers
RemoveAt(s, i) == [j \in 1..(Len(s) - 1) |-> IF j < i THEN s[j] ELSE s[j + 1]]

Count(s, x) == Cardinality({i \in 1..Len(s) : s[i] = x})

\* first index of x in s, 0 when absent
IndexOf(s, x) ==
  IF \E i \in 1..Len(s) : s[i] = x
  THEN CHOOSE i \in 1..Len(s) : s[i] = x /\ \A j \in 1..(i - 1) : s[j] # x
  ELSE 0

\* ------------------------------------------------------- asio primitives
PendingAccept == [st |-> "pending", conn |-> 0]
FailedAccept  == [st |-> "err", conn |-> 0]
PendingWait   == [st |-> "pending", sig |-> "none"]

\* tcp::acceptor::async_accept(socket_, handler): one more outstanding
\* operation.  On a closed acceptor, or into a socket that is already open,
\* the operation completes at once with an error.
async_accept(pr) ==
  [pr EXCEPT !.acceptOps =
     Append(@, IF pr.acceptorOpen /\ pr.socket = 0
               THEN PendingAccept ELSE FailedAccept)]

\* tcp::acceptor::close(): the descriptor is closed and every operation
\* still waiting in the reactor is cancelled (completes with
\* operation_aborted); an operation that had already completed keeps its
\* result.
acceptor_close(pr) ==
  [pr EXCEPT !.acceptorOpen = FALSE,
             !.closes = @ + 1,
             !.acceptOps = [i \in 1..Len(@) |->
                IF @[i].st = "pending"
                THEN [st |-> "aborted", conn |-> 0] ELSE @[i]]]

\* signal_set::async_wait(handler): a notification queued while no wait was
\* outstanding (pick) is dequeued and completes the wait at once; otherwise
\* the wait stays outstanding.
async_wait(pr, pick) ==
  IF pick \in pr.sigRegs /\ pr.undelivered[pick] > 0
  THEN [pr EXCEPT !.undelivered[pick] = @ - 1,
                  !.waitOps = Append(@, [st |-> "ready", sig |-> pick])]
  ELSE [pr EXCEPT !.waitOps = Append(@, PendingWait)]

\* signal_set::remove(sig): the registration and its queued notifications go
signals_remove(pr, s) ==
  [pr EXCEPT !.sigRegs = @ \ {s}, !.undelivered[s] = 0]

\* io_service::stop(): run() returns as soon as the current handler returns
io_service_stop(pr) == [pr EXCEPT !.stopped = TRUE]

\* tcp::socket::close()
socket_close(pr) == [pr EXCEPT !.socket = 0]

\* A signal reaches process pr.  A stopped io_service no longer runs its
\* reactor, so nothing is dispatched.  In build "server" SIGINT/SIGTERM
\* belong to the signal_set of main(); every other registered signal
\* completes all outstanding waits of signals_, or is queued when there is
\* none.  An unregistered SIGCHLD has the default disposition (ignored).
deliver_signal(b, pr, s) ==
  IF pr.status # "running" \/ pr.stopped THEN pr
  ELSE IF b = "server" /\ s \in {"SIGINT", "SIGTERM"}
  THEN [pr EXCEPT !.mainWait = IF @ = "pending" THEN "ready" ELSE @]
  ELSE IF s \notin pr.sigRegs THEN pr
  ELSE IF \E i \in 1..Len(pr.waitOps) : pr.waitOps[i].st = "pending"
  THEN [pr EXCEPT !.waitOps = [i \in 1..Len(@) |->
          IF @[i].st = "pending" THEN [st |-> "ready", sig |-> s] ELSE @[i]]]
  ELSE [pr EXCEPT !.undelivered[s] = @ + 1]

\* ---------------------------------------------------------- the processes
NoProc ==
  [status |-> "absent", ppid |-> NoPid, acceptorOpen |-> FALSE,
   acceptOps |-> <<>>, socket |-> 0, sigRegs |-> {},
   waitOps |-> <<>>, undelivered |-> [s \in Signals |-> 0],
   mainWait |-> "none", stopped |-> FALSE, closes |-> 0]

\* server::server in src/server2.cpp: signals_{SIGTERM, SIGINT, SIGCHLD},
\* the acceptor bound and listening, socket_ closed, then
\* wait_for_signal(); do_accept();
server2_ctor ==
  async_accept(async_wait(
    [NoProc EXCEPT !.status = "running", !.acceptorOpen = TRUE,
                   !.sigRegs = {"SIGTERM", "SIGINT", "SIGCHLD"}],
    "none"))

\* server::server in src/server.cpp: signals_{SIGCHLD}, then
\* do_signal_wait(); do_accept(); main() then waits on its own
\* signal_set{SIGINT, SIGTERM}.
server_ctor ==
  [async_accept(async_wait(
    [NoProc EXCEPT !.status = "running", !.acceptorOpen = TRUE,
                   !.sigRegs = {"SIGCHLD"}],
    "none")) EXCEPT !.mainWait = "pending"]

Children(ps, p) == {c \in Pids : ps[c].ppid = p /\ ps[c].status # "absent"}
Zombies(ps, p)  == {c \in Children(ps, p) : ps[c].status = "zombie"}
Running(ps, p)  == {c \in Children(ps, p) : ps[c].status = "running"}

\* ------------------------------------------------------------ the handlers
\* for (int status = 0; waitpid(-1, &status, WNOHANG) > 0;) {}
\* Each successful call collects one terminated child of p; the loop ends
\* when waitpid returns 0 (children exist, none terminated) or -1 (no
\* child).  WNOHANG: a running child is never waited for.
\* a single waitpid call instead of the loop
waitpid_once(ps, p) ==
  IF Zombies(ps, p) = {} THEN ps
  ELSE LET c == CHOOSE z \in Zombies(ps, p) : TRUE
       IN [ps EXCEPT ![c].status = "reaped"]

RECURSIVE waitpid_loop(_, _)
waitpid_loop(ps, p) ==
  IF Zombies(ps, p) = {} THEN ps
  ELSE LET c == CHOOSE z \in Zombies(ps, p) : TRUE
       IN waitpid_loop([ps EXCEPT ![c].status = "reaped"], p)

\* wait_for_signal_handler without the role test: it reaps, closes and
\* re-arms whatever the state of the acceptor
wait_for_signal_handler_no_role(pr, sig, pick) ==
  LET t1 == <<"syslog_caught_parent">>
      t2 == IF sig = "SIGCHLD" THEN Append(t1, "waitpid_loop") ELSE t1
  IN IF sig \in {"SIGTERM", "SIGINT"}
     THEN [me    |-> async_wait(acceptor_close(pr), pick),
           trace |-> t2 \o <<"acceptor_close", "syslog_closed_acceptor",
                             "wait_for_signal">>,
           reap  |-> FALSE]
     ELSE [me    |-> async_wait(pr, pick),
           trace |-> t2 \o <<"syslog_rescheduled", "wait_for_signal">>,
           reap  |-> (sig = "SIGCHLD")]

\* wait_for_signal_handler that re-arms the wait after closing the acceptor
wait_for_signal_handler_rearm_after_close(pr, sig, pick) ==
  IF pr.acceptorOpen
  THEN LET t1 == <<"syslog_caught_parent">>
           t2 == IF sig = "SIGCHLD" THEN Append(t1, "waitpid_loop") ELSE t1
       IN IF sig \in {"SIGTERM", "SIGINT"}
          THEN [me    |-> async_wait(acceptor_close(pr), pick),
                trace |-> t2 \o <<"acceptor_close", "syslog_closed_acceptor",
                                  "wait_for_signal">>,
                reap  |-> FALSE]
          ELSE [me    |-> async_wait(pr, pick),
                trace |-> t2 \o <<"syslog_rescheduled", "wait_for_signal">>,
                reap  |-> (sig = "SIGCHLD")]
  ELSE [me |-> pr, trace |-> <<"syslog_caught_child">>, reap |-> FALSE]

\* Completion handler of signals_.async_wait in server::wait_for_signal
\* (src/server2.cpp).  sig is the delivered signal, pick the queued
\* notification a re-armed wait would dequeue.  reap tells the caller to run
\* the waitpid loop on the process table.
wait_for_signal_handler(pr, sig, pick) ==
  IF pr.acceptorOpen
  THEN LET t1 == <<"syslog_caught_parent">>
           t2 == IF sig = "SIGCHLD" THEN Append(t1, "waitpid_loop") ELSE t1
       IN IF sig \in {"SIGTERM", "SIGINT"}
          THEN [me    |-> acceptor_close(pr),
                trace |-> t2 \o <<"acceptor_close", "syslog_closed_acceptor">>,
                reap  |-> FALSE]
          ELSE [me    |-> async_wait(pr, pick),
                trace |-> t2 \o <<"syslog_rescheduled", "wait_for_signal">>,
                reap  |-> (sig = "SIGCHLD")]
  ELSE [me |-> pr, trace |-> <<"syslog_caught_child">>, reap |-> FALSE]

\* Completion handler of signals_.async_wait in server::do_signal_wait
\* (src/server.cpp); only SIGCHLD is registered in that signal_set.
do_signal_wait_handler(pr, sig, pick) ==
  IF pr.acceptorOpen
  THEN [me    |-> async_wait(pr, pick),
        trace |-> <<"syslog_caught_signal", "waitpid_loop", "do_signal_wait">>,
        reap  |-> TRUE]
  ELSE [me |-> pr, trace |-> <<>>, reap |-> FALSE]

\* The copy of the forking process that fork() returns 0 in: same memory
\* (the server object and the io_service), a fresh process of parent p.
fork_copy(pr, p) == [pr EXCEPT !.ppid = p, !.closes = 0]

\* child_branch2 that leaves the acceptor open in the worker
child_branch2_keeps_acceptor(c) ==
  [me    |-> io_service_stop(signals_remove(c, "SIGCHLD")),
   trace |-> <<"notify_fork_child", "signals_remove_SIGCHLD",
               "syslog_forked_child", "io_service_stop">>]

\* the child taking the parent's branch of the fork
child_branch2_as_parent(c) ==
  [me    |-> async_accept(socket_close(c)),
   trace |-> <<"notify_fork_parent", "socket_close", "do_accept">>]

\* child_branch2 closing the acceptor before it notifies the io_service
child_branch2_close_first(c) ==
  [me    |-> io_service_stop(signals_remove(acceptor_close(c), "SIGCHLD")),
   trace |-> <<"acceptor_close", "notify_fork_child", "signals_remove_SIGCHLD",
               "syslog_forked_child", "io_service_stop">>]

\* child_branch2 that keeps the SIGCHLD registration in the worker
child_branch2_keeps_sigchld(c) ==
  [me    |-> io_service_stop(acceptor_close(c)),
   trace |-> <<"notify_fork_child", "acceptor_close",
               "syslog_forked_child", "io_service_stop">>]

\* Child branch of the per-connection fork in src/server2.cpp.
child_branch2(c) ==
  [me    |-> io_service_stop(signals_remove(acceptor_close(c), "SIGCHLD")),
   trace |-> <<"notify_fork_child", "acceptor_close", "signals_remove_SIGCHLD",
               "syslog_forked_child", "io_service_stop">>]

\* Child branch of the per-connection fork in src/server.cpp.
child_branch1(c) ==
  [me    |-> io_service_stop(acceptor_close(c)),
   trace |-> <<"notify_fork_child", "acceptor_close",
               "syslog_forked_child", "io_service_stop">>]

\* parent_branch2 with the re-arm forgotten
parent_branch2_no_rearm(pr) ==
  [me    |-> socket_close(pr),
   trace |-> <<"notify_fork_parent", "socket_close">>]

\* parent_branch2 arming the accept twice
parent_branch2_double_arm(pr) ==
  [me    |-> async_accept(async_accept(socket_close(pr))),
   trace |-> <<"notify_fork_parent", "socket_close", "do_accept", "do_accept">>]

\* parent_branch2 re-arming the accept without closing its connection
parent_branch2_keeps_socket(pr) ==
  [me    |-> async_accept(pr),
   trace |-> <<"notify_fork_parent", "do_accept">>]

\* Parent branch (fork() returned a pid, or -1): src/server2.cpp.
parent_branch2(pr) ==
  [me    |-> async_accept(socket_close(pr)),
   trace |-> <<"notify_fork_parent", "socket_close", "do_accept">>]

\* Parent branch (fork() returned a pid, or -1): src/server.cpp.
parent_branch1(pr) ==
  [me    |-> async_accept(socket_close(pr)),
   trace |-> <<"notify_fork_parent", "socket_close", "do_accept">>]

\* accept_error2 that logs and gives up
accept_error2_no_rearm(pr) ==
  [me    |-> pr,
   trace |-> <<"syslog_accept_error">>]

\* Accept failed: syslog, then do_accept() (src/server2.cpp).
accept_error2(pr) ==
  [me    |-> async_accept(pr),
   trace |-> <<"syslog_accept_error", "do_accept">>]

\* Accept failed: syslog, then do_accept() (src/server.cpp).
accept_error1(pr) ==
  [me    |-> async_accept(pr),
   trace |-> <<"syslog_accept_error", "do_accept">>]

NoChild == [me |-> NoProc, trace |-> <<>>]

\* do_accept_handler2 without the test of acceptor_.is_open()
do_accept_handler2_unguarded(pr, ec, forked, p) ==
  IF ec = "ok"
  THEN LET par == parent_branch2(pr)
       IN [me          |-> par.me,
           trace       |-> <<"notify_fork_prepare", "fork">> \o par.trace,
           called_fork |-> TRUE,
           child       |-> IF forked THEN child_branch2(fork_copy(pr, p))
                           ELSE NoChild]
  ELSE LET e == accept_error2(pr)
       IN [me |-> e.me, trace |-> e.trace, called_fork |-> FALSE,
           child |-> NoChild]

\* do_accept_handler2 testing fork() <= 0: a failed fork takes the child's
\* branch in the daemon itself
do_accept_handler2_fork_failure_as_child(pr, ec, forked, p) ==
  IF ~pr.acceptorOpen
  THEN [me |-> pr, trace |-> <<>>, called_fork |-> FALSE, child |-> NoChild]
  ELSE IF ec = "ok"
  THEN LET par == IF forked THEN parent_branch2(pr) ELSE child_branch2(pr)
       IN [me          |-> par.me,
           trace       |-> <<"notify_fork_prepare", "fork">> \o par.trace,
           called_fork |-> TRUE,
           child       |-> IF forked THEN child_branch2(fork_copy(pr, p))
                           ELSE NoChild]
  ELSE LET e == accept_error2(pr)
       IN [me |-> e.me, trace |-> e.trace, called_fork |-> FALSE,
           child |-> NoChild]

\* Completion handler of acceptor_.async_accept in server::do_accept
\* (src/server2.cpp).  pr is the process with the operation dequeued and the
\* accepted connection, if any, assigned to socket_; ec is the operation's
\* result; forked says whether fork() created a child; p is the pid.
do_accept_handler2(pr, ec, forked, p) ==
  IF ~pr.acceptorOpen
  THEN [me |-> pr, trace |-> <<>>, called_fork |-> FALSE, child |-> NoChild]
  ELSE IF ec = "ok"
  THEN LET par == parent_branch2(pr)
       IN [me          |-> par.me,
           trace       |-> <<"notify_fork_prepare", "fork">> \o par.trace,
           called_fork |-> TRUE,
           child       |-> IF forked THEN child_branch2(fork_copy(pr, p))
                           ELSE NoChild]
  ELSE LET e == accept_error2(pr)
       IN [me |-> e.me, trace |-> e.trace, called_fork |-> FALSE,
           child |-> NoChild]

\* Completion handler of acceptor_.async_accept in server::do_accept
\* (src/server.cpp): no test of the acceptor before the error code.
do_accept_handler1(pr, ec, forked, p) ==
  IF ec = "ok"
  THEN LET par == parent_branch1(pr)
       IN [me          |-> par.me,
           trace       |-> <<"notify_fork_prepare", "fork">> \o par.trace,
           called_fork |-> TRUE,
           child       |-> IF forked THEN child_branch1(fork_copy(pr, p))
                           ELSE NoChild]
  ELSE LET e == accept_error1(pr)
       IN [me |-> e.me, trace |-> e.trace, called_fork |-> FALSE,
           child |-> NoChild]

\* Handler of signals.async_wait in main() of src/server.cpp
main_signal_handler(pr) ==
  [me |-> io_service_stop(pr), trace |-> <<"io_service_stop">>]

\* ----------------------------------------------------------- the event loop
\* io_service::run() invokes handlers while the io_service is not stopped
CanRun(pr) == pr.status = "running" /\ ~pr.stopped

\* io_service::run() returns when stopped or when no operation is outstanding
OutOfWork(pr) ==
  pr.acceptOps = <<>> /\ pr.waitOps = <<>> /\ pr.mainWait = "none"

\* A SIGCHLD notification that the process has received and not yet handled
UnhandledChld(pr) ==
  \/ pr.undelivered["SIGCHLD"] > 0
  \/ \E i \in 1..Len(pr.waitOps) : pr.waitOps[i] = [st |-> "ready", sig |-> "SIGCHLD"]

\* The notification that the next async_wait would dequeue
QueuedPicks(pr) ==
  LET q == {s \in pr.sigRegs : pr.undelivered[s] > 0}
  IN IF q = {} THEN {"none"} ELSE q

FreePids == {w \in WorkerPids : procs[w].status = "absent"}
NewPid   == IF FreePids = {} THEN NoPid
            ELSE CHOOSE w \in FreePids : \A v \in FreePids : w <= v

Step(kind, p) ==
  [kind |-> kind, pid |-> p, sig |-> "none", ec |-> "none", conn |-> 0,
   wasOpen |-> FALSE, trace |-> <<>>, called_fork |-> FALSE,
   fork_ok |-> FALSE, child |-> NoPid, childTrace |-> <<>>, zombiesBefore |-> {},
   errsBefore |-> 0]

\* -------------------------------------------------------------- wire codec
\* Bytes are 0..255; a buffer is a sequence of bytes, lowest address first.
RECURSIVE Pow256(_)
Pow256(k) == IF k = 0 THEN 1 ELSE 256 * Pow256(k - 1)

\* the k bytes of the integer n in two's complement, least significant
\* first (\div rounds down, so a negative n gets its sign bytes)
LittleEndian(n, k) == [i \in 1..k |-> (n \div Pow256(i - 1)) % 256]

\* flatbuffers::ReadScalar: the little-endian number in the k bytes at pos
RECURSIVE ReadScalar(_, _, _)
ReadScalar(b, pos, k) ==
  IF k = 0 THEN 0 ELSE b[pos] + 256 * ReadScalar(b, pos + 1, k - 1)

\* the same for a signed scalar
RECURSIVE ReadSigned(_, _, _)
ReadSigned(b, pos, k) ==
  IF k = 1 THEN (IF b[pos] >= 128 THEN b[pos] - 256 ELSE b[pos])
  ELSE b[pos] + 256 * ReadSigned(b, pos + 1, k - 1)

Zeros(n) == [i \in 1..n |-> 0]

\* fbs::FlatBufferBuilder builder{1024}: the buffer grows towards lower
\* addresses, and an offset is the distance of an object from the end of the
\* buffer, that is the size of the buffer when the object had been written.
NewBuilder ==
  [buf |-> <<>>, nested |-> FALSE, start |-> 0, fields |-> <<>>,
   vtables |-> <<>>, minalign |-> 1, ret |-> 0, failed |-> FALSE,
   calls |-> <<>>]

GetSize(f) == Len(f.buf)

GetBufferPointer(f) == f.buf

PaddingBytes(size, a) == (a - (size % a)) % a

\* FlatBufferBuilder::Align
Align(f, a) ==
  [f EXCEPT !.buf = Zeros(PaddingBytes(Len(@), a)) \o @,
            !.minalign = IF a > @ THEN a ELSE @]

\* FlatBufferBuilder::PreAlign: pad so that the buffer is aligned once len
\* more bytes are written
PreAlign(f, len, a) ==
  IF len = 0 THEN f
  ELSE [f EXCEPT !.buf = Zeros(PaddingBytes(Len(@) + len, a)) \o @,
                 !.minalign = IF a > @ THEN a ELSE @]

\* FlatBufferBuilder::PushElement of a k-byte scalar
PushElement(f, v, k) ==
  LET a == Align(f, k)
  IN [a EXCEPT !.buf = LittleEndian(v, k) \o @]

\* The builder's NotNested() assertion failed: the call is recorded and has
\* no other effect.
Refused(f, call) ==
  [f EXCEPT !.failed = TRUE, !.calls = Append(@, call)]

\* builder.CreateString(str): padding, the terminating 0, the characters and
\* in front of them their number; no table may be under construction.
CreateString(f, str) ==
  IF f.nested THEN Refused(f, "CreateString")
  ELSE LET a == PreAlign(f, Len(str) + 1, 4)
           b == [a EXCEPT !.buf = str \o <<0>> \o @]
           c == PushElement(b, Len(str), 4)
       IN [c EXCEPT !.ret = Len(c.buf), !.calls = Append(@, "CreateString")]

\* FlatBufferBuilder::StartTable, called by the constructor of a generated
\* table builder
StartTable(f) ==
  IF f.nested THEN Refused(f, "StartTable")
  ELSE [f EXCEPT !.nested = TRUE, !.start = Len(f.buf), !.fields = <<>>,
                 !.calls = Append(@, "StartTable")]

\* FlatBufferBuilder::AddElement: a scalar equal to its default is not stored
AddElement(f, voff, v, k, def) ==
  IF v = def THEN f
  ELSE LET a == PushElement(f, v, k)
       IN [a EXCEPT !.fields = Append(@, [id |-> voff, off |-> Len(a.buf)])]

\* FlatBufferBuilder::AddOffset: the stored value is the distance from the
\* field to the object it refers to
AddOffset(f, voff, off) ==
  IF off = 0 THEN f
  ELSE LET a == Align(f, 4)
       IN AddElement(a, voff, Len(a.buf) - off + 4, 4, 0)

\* the vtable stored at offset o of buffer b
VTableAt(b, o) ==
  LET i == Len(b) - o + 1
  IN SubSeq(b, i, i + ReadScalar(b, i, 2) - 1)

\* FlatBufferBuilder::EndTable: the table's offset to its vtable, then the
\* vtable (its size, the table's size, the position of every field), which
\* is dropped again when an identical vtable was written before; the table
\* then refers to that one.
EndTable(f) ==
  LET t      == PushElement(f, 0, 4)
      loc    == Len(t.buf)
      ids    == {t.fields[i].id : i \in 1..Len(t.fields)}
      maxv   == IF ids = {} THEN 0
                ELSE CHOOSE v \in ids : \A w \in ids : w <= v
      vtsize == IF maxv + 2 > 4 THEN maxv + 2 ELSE 4
      PosOf(v) ==
        IF v \in ids
        THEN loc - t.fields[CHOOSE i \in 1..Len(t.fields) :
                              /\ t.fields[i].id = v
                              /\ \A j \in (i + 1)..Len(t.fields) :
                                   t.fields[j].id # v].off
        ELSE 0
      vt     == [i \in 1..vtsize |->
                  LET j == i - 1
                  IN IF j < 2 THEN LittleEndian(vtsize, 2)[j + 1]
                     ELSE IF j < 4 THEN LittleEndian(loc - f.start, 2)[j - 1]
                     ELSE LittleEndian(PosOf(j - (j % 2)), 2)[(j % 2) + 1]]
      withvt == vt \o t.buf
      same   == {k \in 1..Len(f.vtables) : VTableAt(withvt, f.vtables[k]) = vt}
      vt_use == IF same = {} THEN Len(withvt)
                ELSE f.vtables[CHOOSE k \in same : \A m \in same : k <= m]
      b      == IF same = {} THEN withvt ELSE t.buf
      at     == Len(b) - loc + 1
      so     == LittleEndian(vt_use - loc, 4)
  IN [t EXCEPT !.buf = [i \in 1..Len(b) |->
                          IF i >= at /\ i < at + 4 THEN so[i - at + 1]
                          ELSE b[i]],
               !.vtables = IF same = {} THEN Append(@, vt_use) ELSE @,
               !.nested = FALSE,
               !.fields = <<>>,
               !.ret = loc,
               !.calls = Append(@, "EndTable")]

\* FlatBufferBuilder::Finish(root): the offset of the root table, aligned,
\* in front of everything
Finish(f, root) ==
  IF f.nested THEN Refused(f, "Finish")
  ELSE LET a == PreAlign(f, 4, f.minalign)
           b == Align(a, 4)
           c == PushElement(b, Len(b.buf) - root + 4, 4)
       IN [c EXCEPT !.calls = Append(@, "Finish")]

\* message.fbs: the vtable slot of the i-th field of a table
FieldIndexToOffset(i) == 4 + 2 * i

\* table user_info { name : string; }
VT_NAME == FieldIndexToOffset(0)

\* table message { minimum_protocol_version; api_number; user; proxy_user;
\* payload; }
VT_MINIMUM_PROTOCOL_VERSION == FieldIndexToOffset(0)
VT_API_NUMBER               == FieldIndexToOffset(1)
VT_USER                     == FieldIndexToOffset(2)
VT_PROXY_USER               == FieldIndexToOffset(3)
VT_PAYLOAD                  == FieldIndexToOffset(4)

\* enum api_no : uint16 { data_object_open = 0, ..., data_object_unlink }
api_no == 0..6

\* A message: the five fields of table message.  A string is a sequence of
\* the bytes 1..255, as the C strings handed to CreateString are.
Message(version, api, user, proxy, payload) ==
  [minimum_protocol_version |-> version,
   api_number               |-> api,
   user                     |-> [name |-> user],
   proxy_user               |-> [name |-> proxy],
   payload                  |-> payload]

\* message_generated.h, as the schema generates it: each add_ method stores
\* its field in the field's slot
add_name(f, name) == AddOffset(f, VT_NAME, name)

add_minimum_protocol_version(f, v) ==
  AddElement(f, VT_MINIMUM_PROTOCOL_VERSION, v, 2, 0)

add_user(f, user) == AddOffset(f, VT_USER, user)

add_proxy_user_in_user_slot(f, proxy_user) == AddOffset(f, VT_USER, proxy_user)

add_proxy_user(f, proxy_user) == AddOffset(f, VT_PROXY_USER, proxy_user)

add_api_number(f, v) == AddElement(f, VT_API_NUMBER, v, 2, 0)

add_payload(f, payload) == AddOffset(f, VT_PAYLOAD, payload)

\* client.cpp, main(): little_int32_buf_t v(builder.GetSize()), then the two
\* s.write calls: the four bytes of v, then the buffer.
write_frame_big_endian(f) ==
  [i \in 1..4 |-> (GetSize(f) \div Pow256(4 - i)) % 256] \o GetBufferPointer(f)

write_frame(f) ==
  LittleEndian(GetSize(f), 4) \o GetBufferPointer(f)

\* The reader of a serialized message: the root table, the slot of a field
\* in the table's vtable (0 when the field is not stored), a scalar field
\* with its default, the object an offset field refers to, a string.
GetRoot(b) == 1 + ReadScalar(b, 1, 4)

GetOptionalFieldOffset(b, t, voff) ==
  LET vt == t - ReadSigned(b, t, 4)
  IN IF voff < ReadScalar(b, vt, 2) THEN ReadScalar(b, vt + voff, 2) ELSE 0

GetField(b, t, voff, k, def, signed) ==
  LET o == GetOptionalFieldOffset(b, t, voff)
  IN IF o = 0 THEN def
     ELSE IF signed THEN ReadSigned(b, t + o, k)
     ELSE ReadScalar(b, t + o, k)

GetPointer(b, t, voff) ==
  LET o == GetOptionalFieldOffset(b, t, voff)
  IN IF o = 0 THEN 0 ELSE t + o + ReadScalar(b, t + o, 4)

GetString(b, s) == SubSeq(b, s + 4, s + 3 + ReadScalar(b, s, 4))

\* the largest body a reader accepts
MaxBodyLength == 16 * 1024 * 1024

FramingError == [ok |-> FALSE, error |-> "FramingError"]

SchemaError == [ok |-> FALSE, error |-> "SchemaError"]

\* the message in body b, or SchemaError
decode_body(b) ==
  IF Len(b) < 4 THEN SchemaError
  ELSE
    LET root    == GetRoot(b)
        user    == GetPointer(b, root, VT_USER)
        proxy   == GetPointer(b, root, VT_PROXY_USER)
        payload == GetPointer(b, root, VT_PAYLOAD)
        api     == GetField(b, root, VT_API_NUMBER, 2, 0, FALSE)
    IN IF user = 0 \/ proxy = 0 \/ api \notin api_no THEN SchemaError
       ELSE IF GetPointer(b, user, VT_NAME) = 0
               \/ GetPointer(b, proxy, VT_NAME) = 0 THEN SchemaError
       ELSE [ok  |-> TRUE,
             msg |-> Message(
               GetField(b, root, VT_MINIMUM_PROTOCOL_VERSION, 2, 0, TRUE),
               api,
               GetString(b, GetPointer(b, user, VT_NAME)),
               GetString(b, GetPointer(b, proxy, VT_NAME)),
               IF payload = 0 THEN <<>> ELSE GetString(b, payload))]

\* decode(stream): four bytes of length, then that many bytes of body
decode(wire) ==
  IF Len(wire) < 4 THEN FramingError
  ELSE IF wire[4] >= 128 THEN FramingError   \* 2^31 or more
  ELSE LET length == ReadScalar(wire, 1, 4)
       IN IF length > MaxBodyLength \/ Len(wire) - 4 < length
          THEN FramingError
          ELSE decode_body(SubSeq(wire, 5, 4 + length))

\* The messages of the check: the literals of the source among them.
MaxPayloadLen == 3
LongPayloadLen == 300

Kory == <<107, 111, 114, 121>>
Rods == <<114, 111, 100, 115>>

Versions == {0, 430, -1, 32767, -32768}
Names    == {<<>>, Kory, Rods}
Payload(n) == [i \in 1..n |-> 97 + (i % 26)]
Payloads == {Payload(n) : n \in (0..MaxPayloadLen) \cup {LongPayloadLen}}

Messages ==
  {Message(v, a, u, p, d) :
     v \in Versions, a \in api_no, u \in Names, p \in Names, d \in Payloads}

\* ------------------------------------------------------------------ main()
NoExit == -1
Args   == {"usage", "unparsable", "unbindable", "out_of_range", "valid"}

\* main() up to io_service.run(), for the command line arg:
\*   "usage"        argc is not 2: the usage line, return 1;
\*   "unparsable"   std::stoi(argv[1]) throws;
\*   "unbindable"   the acceptor's constructor throws (port in use, ...);
\*   "out_of_range" a number above 65535: std::stoi succeeds and the
\*                  conversion to the endpoint's unsigned short wraps, so a
\*                  different port is bound;
\*   "valid"        the server is constructed and run() entered.
\* An exception leaves the try block for the catch, which logs and falls off
\* the end of main: the process returns 0.
main_startup(arg) ==
  IF arg = "usage"
  THEN [stage |-> "returned", arg |-> arg, exit |-> 1,
        trace |-> <<"print_usage", "return_1">>]
  ELSE IF arg \in {"unparsable", "unbindable"}
  THEN [stage |-> "returned", arg |-> arg, exit |-> 0,
        trace |-> <<"throw", "catch", "syslog_exception", "print_exception",
                    "end_of_main">>]
  ELSE [stage |-> "serving", arg |-> arg, exit |-> NoExit,
        trace |-> <<"server_ctor", "syslog_daemon_started", "io_service_run">>]

\* io_service.run() has returned: "Daemon stopped", end of the try block and
\* of main
main_returns(st) ==
  [st EXCEPT !.stage = "returned", !.exit = 0,
             !.trace = @ \o <<"syslog_daemon_stopped", "end_of_main">>]

\* main() already inside io_service.run()
Serving == main_startup("valid")

\* no message is being exchanged
NoMessage == [pc |-> 0]

Init ==
  /\ build \in Builds
  /\ procs = [p \in Pids |->
                IF p = DaemonPid
                THEN IF build = "server2" THEN server2_ctor ELSE server_ctor
                ELSE NoProc]
  /\ conns = 0
  /\ sent = 0
  /\ errStreak = 0
  /\ last = Step("init", DaemonPid)
  /\ startup = Serving
  /\ codec = NoMessage

\* The reactor completes the oldest waiting accept of p with a new connection
ConnectionArrives(p) ==
  /\ CanRun(procs[p])
  /\ procs[p].acceptorOpen
  /\ conns < MaxConns
  /\ IndexOf([i \in 1..Len(procs[p].acceptOps) |-> procs[p].acceptOps[i].st],
             "pending") # 0
  /\ LET i == IndexOf([j \in 1..Len(procs[p].acceptOps) |->
                         procs[p].acceptOps[j].st], "pending")
     IN procs' = [procs EXCEPT ![p].acceptOps[i] =
                     [st |-> "ok", conn |-> conns + 1]]
  /\ conns' = conns + 1
  /\ last' = Step("env", NoPid)
  /\ UNCHANGED <<build, sent, errStreak, startup, codec>>

\* The reactor completes the oldest waiting accept of p with a transient
\* error (EMFILE, ENFILE, ECONNABORTED, ...)
AcceptFails(p) ==
  /\ CanRun(procs[p])
  /\ procs[p].acceptorOpen
  /\ errStreak < MaxErrStreak
  /\ IndexOf([i \in 1..Len(procs[p].acceptOps) |-> procs[p].acceptOps[i].st],
             "pending") # 0
  /\ LET i == IndexOf([j \in 1..Len(procs[p].acceptOps) |->
                         procs[p].acceptOps[j].st], "pending")
     IN procs' = [procs EXCEPT ![p].acceptOps[i] = FailedAccept]
  /\ last' = Step("env", NoPid)
  /\ UNCHANGED <<build, conns, sent, errStreak, startup, codec>>

\* kill(p, s) from outside the daemon
SignalArrives(p, s) ==
  /\ procs[p].status = "running"
  /\ sent < MaxSignals
  /\ procs' = [procs EXCEPT ![p] = deliver_signal(build, procs[p], s)]
  /\ sent' = sent + 1
  /\ last' = Step("env", NoPid)
  /\ UNCHANGED <<build, conns, errStreak, startup, codec>>

\* io_service::run() invokes the completion handler of a finished accept
AcceptHandler(p) ==
  /\ CanRun(procs[p])
  /\ \E i \in 1..Len(procs[p].acceptOps), forked \in BOOLEAN :
       LET op  == procs[p].acceptOps[i]
           pr0 == [procs[p] EXCEPT
                     !.acceptOps = RemoveAt(@, i),
                     !.socket = IF op.st = "ok" THEN op.conn ELSE @]
           r   == IF build = "server2"
                  THEN do_accept_handler2(pr0, op.st, forked, p)
                  ELSE do_accept_handler1(pr0, op.st, forked, p)
           born == r.child.me.status = "running"
       IN /\ op.st # "pending"
          /\ born => NewPid # NoPid
          /\ procs' = IF born
                      THEN [procs EXCEPT ![p] = r.me, ![NewPid] = r.child.me]
                      ELSE [procs EXCEPT ![p] = r.me]
          /\ errStreak' = IF op.st = "ok" THEN 0
                          ELSE IF r.trace = <<>> THEN errStreak
                          ELSE errStreak + 1
          /\ last' = [Step("accept", p) EXCEPT
                        !.ec = op.st, !.conn = op.conn,
                        !.wasOpen = procs[p].acceptorOpen,
                        !.trace = r.trace,
                        !.called_fork = r.called_fork,
                        !.fork_ok = r.called_fork /\ forked,
                        !.child = IF born THEN NewPid ELSE NoPid,
                        !.childTrace = r.child.trace,
                        !.errsBefore = errStreak]
  /\ UNCHANGED <<build, conns, sent, startup, codec>>

\* The completion handler that the running daemon gave to signals_.async_wait
signal_handler(pr, sig, pick) ==
  IF build = "server2"
  THEN wait_for_signal_handler(pr, sig, pick)
  ELSE do_signal_wait_handler(pr, sig, pick)

\* io_service::run() invokes the completion handler of a finished signal wait
SignalHandler(p) ==
  /\ CanRun(procs[p])
  /\ \E i \in 1..Len(procs[p].waitOps), pick \in QueuedPicks(procs[p]) :
       LET op  == procs[p].waitOps[i]
           pr0 == [procs[p] EXCEPT !.waitOps = RemoveAt(@, i)]
           r   == signal_handler(pr0, op.sig, pick)
           ps1 == [procs EXCEPT ![p] = r.me]
       IN /\ op.st = "ready"
          /\ procs' = IF r.reap THEN waitpid_loop(ps1, p) ELSE ps1
          /\ last' = [Step("signal", p) EXCEPT
                        !.sig = op.sig,
                        !.wasOpen = procs[p].acceptorOpen,
                        !.trace = r.trace,
                        !.zombiesBefore = Zombies(procs, p)]
  /\ UNCHANGED <<build, conns, sent, errStreak, startup, codec>>

\* io_service::run() invokes the handler of main()'s signal wait (server.cpp)
MainSignalHandler(p) ==
  /\ CanRun(procs[p])
  /\ procs[p].mainWait = "ready"
  /\ LET r == main_signal_handler([procs[p] EXCEPT !.mainWait = "none"])
     IN /\ procs' = [procs EXCEPT ![p] = r.me]
        /\ last' = [Step("main_signal", p) EXCEPT !.trace = r.trace]
  /\ UNCHANGED <<build, conns, sent, errStreak, startup, codec>>

\* io_service.run() returns in main(), main() returns and the process ends.
\* A worker whose parent is alive becomes a zombie and the parent is sent
\* SIGCHLD, which the kernel may merge with a SIGCHLD not yet handled; the
\* children of a process that ends are collected by init.
RunReturns(p) ==
  /\ procs[p].status = "running"
  /\ procs[p].stopped \/ OutOfWork(procs[p])
  /\ \E merged \in BOOLEAN :
       LET pp    == procs[p].ppid
           alive == pp # NoPid /\ procs[pp].status = "running"
           ps1   == [q \in Pids |->
                       IF q = p
                       THEN [procs[q] EXCEPT !.status =
                               IF alive THEN "zombie"
                               ELSE IF p = DaemonPid THEN "exited" ELSE "gone"]
                       ELSE IF procs[q].ppid = p /\ procs[q].status = "zombie"
                       THEN [procs[q] EXCEPT !.status = "gone"]
                       ELSE procs[q]]
       IN /\ merged => alive /\ UnhandledChld(procs[pp])
          /\ procs' = IF alive /\ ~merged
                      THEN [ps1 EXCEPT ![pp] =
                              deliver_signal(build, ps1[pp], "SIGCHLD")]
                      ELSE ps1
  /\ last' = Step("run_returns", p)
  /\ startup' = IF p = DaemonPid THEN main_returns(startup) ELSE startup
  /\ UNCHANGED <<build, conns, sent, errStreak, codec>>

Next ==
  \/ \E p \in Pids : ConnectionArrives(p)
  \/ \E p \in Pids : AcceptFails(p)
  \/ \E p \in Pids, s \in Signals : SignalArrives(p, s)
  \/ \E p \in Pids : AcceptHandler(p)
  \/ \E p \in Pids : SignalHandler(p)
  \/ \E p \in Pids : MainSignalHandler(p)
  \/ \E p \in Pids : RunReturns(p)

Spec == Init /\ [][Next]_vars

\* The daemon from the entry of main(): the command line is drawn from Args
\* and no process has a server object yet.
MainInit ==
  /\ build \in Builds
  /\ procs = [p \in Pids |-> NoProc]
  /\ conns = 0
  /\ sent = 0
  /\ errStreak = 0
  /\ last = Step("init", DaemonPid)
  /\ startup \in {[stage |-> "args", arg |-> a, exit |-> NoExit,
                    trace |-> <<>>] : a \in Args}
  /\ codec = NoMessage

\* main() runs from its entry to io_service.run(), or to its return
Main ==
  /\ startup.stage = "args"
  /\ startup' = main_startup(startup.arg)
  /\ procs' = IF startup'.stage = "serving"
              THEN [procs EXCEPT ![DaemonPid] =
                      IF build = "server2" THEN server2_ctor ELSE server_ctor]
              ELSE procs
  /\ last' = Step("main", DaemonPid)
  /\ UNCHANGED <<build, conns, sent, errStreak, codec>>

MainNext ==
  \/ Main
  \/ \E p \in Pids : ConnectionArrives(p)
  \/ \E p \in Pids : AcceptFails(p)
  \/ \E p \in Pids, s \in Signals : SignalArrives(p, s)
  \/ \E p \in Pids : AcceptHandler(p)
  \/ \E p \in Pids : SignalHandler(p)
  \/ \E p \in Pids : MainSignalHandler(p)
  \/ \E p \in Pids : RunReturns(p)

MainSpec == MainInit /\ [][MainNext]_vars

\* client.cpp, main(): the lines of the try block that act on the builder or
\* on the socket, and the line after the last of them
Program ==
  <<98, 102, 103, 104, 106, 107, 108, 110, 111, 112,
    114, 115, 116, 117, 118, 119, 120, 122, 124, 129>>

AfterLine(pc) == Program[IndexOf(Program, pc) + 1]

NotDecoded == [ok |-> FALSE, error |-> "none"]

\* the client at the entry of its try block, about to send m
ClientStart(m) ==
  [pc |-> Program[1], msg |-> m, builder |-> NewBuilder,
   username |-> 0, proxy_username |-> 0, payload |-> 0,
   user |-> 0, proxy_user |-> 0, root |-> 0,
   wire |-> <<>>, decoded |-> NotDecoded]

\* the statements in the order of the disabled block of client.cpp:27-51:
\* each string is created after the builder of the table that refers to it
\* has been started
client_statement_strings_late(c) ==
  LET f  == c.builder
      nx == AfterLine(c.pc)
      Ret(g, var) == [[c EXCEPT !.builder = g, !.pc = nx] EXCEPT ![var] = g.ret]
      Do(g) == [c EXCEPT !.builder = g, !.pc = nx]
  IN CASE c.pc = 98  -> Do(NewBuilder)
       [] c.pc = 102 -> Do(StartTable(f))
       [] c.pc = 103 -> Ret(CreateString(f, c.msg.user.name), "username")
       [] c.pc = 104 -> Do(add_name(f, c.username))
       [] c.pc = 106 -> Ret(EndTable(f), "user")
       [] c.pc = 107 -> Do(StartTable(f))
       [] c.pc = 108 -> Ret(CreateString(f, c.msg.proxy_user.name),
                            "proxy_username")
       [] c.pc = 110 -> Do(add_name(f, c.proxy_username))
       [] c.pc = 111 -> Ret(EndTable(f), "proxy_user")
       [] c.pc = 112 -> Do(StartTable(f))
       [] c.pc = 114 -> Do(add_minimum_protocol_version(
                             f, c.msg.minimum_protocol_version))
       [] c.pc = 115 -> Do(add_user(f, c.user))
       [] c.pc = 116 -> Do(add_proxy_user(f, c.proxy_user))
       [] c.pc = 117 -> Do(add_api_number(f, c.msg.api_number))
       [] c.pc = 118 -> Ret(CreateString(f, c.msg.payload), "payload")
       [] c.pc = 119 -> Do(add_payload(f, c.payload))
       [] c.pc = 120 -> Ret(EndTable(f), "root")
       [] c.pc = 122 -> Do(Finish(f, c.root))

\* client.cpp:98-122, the statement at line c.pc.  The fields of c.msg stand
\* in the place of the literals of the source.
client_statement(c) ==
  LET f  == c.builder
      nx == AfterLine(c.pc)
      Ret(g, var) == [[c EXCEPT !.builder = g, !.pc = nx] EXCEPT ![var] = g.ret]
      Do(g) == [c EXCEPT !.builder = g, !.pc = nx]
  IN CASE c.pc = 98  -> Do(NewBuilder)
       [] c.pc = 102 -> Ret(CreateString(f, c.msg.user.name), "username")
       [] c.pc = 103 -> Ret(CreateString(f, c.msg.proxy_user.name),
                            "proxy_username")
       [] c.pc = 104 -> Ret(CreateString(f, c.msg.payload), "payload")
       [] c.pc = 106 -> Do(StartTable(f))
       [] c.pc = 107 -> Do(add_name(f, c.username))
       [] c.pc = 108 -> Ret(EndTable(f), "user")
       [] c.pc = 110 -> Do(StartTable(f))
       [] c.pc = 111 -> Do(add_name(f, c.proxy_username))
       [] c.pc = 112 -> Ret(EndTable(f), "proxy_user")
       [] c.pc = 114 -> Do(StartTable(f))
       [] c.pc = 115 -> Do(add_minimum_protocol_version(
                             f, c.msg.minimum_protocol_version))
       [] c.pc = 116 -> Do(add_user(f, c.user))
       [] c.pc = 117 -> Do(add_proxy_user(f, c.proxy_user))
       [] c.pc = 118 -> Do(add_api_number(f, c.msg.api_number))
       [] c.pc = 119 -> Do(add_payload(f, c.payload))
       [] c.pc = 120 -> Ret(EndTable(f), "root")
       [] c.pc = 122 -> Do(Finish(f, c.root))

\* The exchange of one message: the client holds a message of Messages,
\* serializes it statement by statement, writes the frame to its connection,
\* and the reader of the connection decodes what was written.  The daemon
\* stands as constructed.
CodecInit ==
  /\ build = "server2"
  /\ procs = [p \in Pids |-> IF p = DaemonPid THEN server2_ctor ELSE NoProc]
  /\ conns = 0
  /\ sent = 0
  /\ errStreak = 0
  /\ last = Step("init", DaemonPid)
  /\ startup = Serving
  /\ codec \in {ClientStart(m) : m \in Messages}

\* client.cpp:98-122
ClientEncode ==
  /\ codec.pc \in 98..122
  /\ codec' = client_statement(codec)
  /\ UNCHANGED <<build, procs, conns, sent, errStreak, last, startup>>

\* client.cpp:124-128
ClientWrite ==
  /\ codec.pc = 124
  /\ codec' = [codec EXCEPT !.wire = write_frame(codec.builder),
                            !.pc = AfterLine(codec.pc)]
  /\ UNCHANGED <<build, procs, conns, sent, errStreak, last, startup>>

\* the reader decodes the bytes on the connection
ReaderDecode ==
  /\ codec.pc = 129
  /\ codec.decoded = NotDecoded
  /\ codec' = [codec EXCEPT !.decoded = decode(codec.wire)]
  /\ UNCHANGED <<build, procs, conns, sent, errStreak, last, startup>>

CodecNext == ClientEncode \/ ClientWrite \/ ReaderDecode

CodecSpec == CodecInit /\ [][CodecNext]_vars

TypeOK ==
  /\ build \in Builds
  /\ conns \in 0..MaxConns
  /\ sent \in 0..MaxSignals
  /\ \A p \in Pids :
       procs[p].status \in {"absent", "running", "zombie", "reaped", "gone", "exited"}

\* ------------------------------------------------------------------ claims
IsWorker(p) == p \in WorkerPids /\ procs[p].status # "absent"

\* The daemon has run its handler of SIGTERM/SIGINT: wait_for_signal closed
\* the acceptor (server2.cpp), or main()'s handler stopped the io_service
\* (server.cpp).
ShutdownHandled ==
  \/ build = "server2" /\ procs[DaemonPid].closes > 0
  \/ build = "server" /\ procs[DaemonPid].stopped

\* C1: once the daemon has handled SIGTERM/SIGINT it never forks again,
\* whatever the order of signal and accept events (also when an accept had
\* completed successfully before the signal handler ran), and no step of the
\* daemon from that handler on ends a worker that is running.
C1_ShutdownCorrectness ==
  [][(last'.pid = DaemonPid /\ ShutdownHandled') =>
       /\ ShutdownHandled =>
            /\ ~last'.called_fork
            /\ last'.child = NoPid
            /\ \A w \in WorkerPids :
                 procs[w].status = "absent" => procs'[w].status = "absent"
       /\ \A w \in WorkerPids :
            procs[w].status = "running" => procs'[w].status = "running"]_vars

\* The accept handler runs after the shutdown handler on an accept that had
\* completed successfully, while a worker spawned earlier is still running.
C1_Witness ==
  /\ build = "server2"
  /\ ShutdownHandled
  /\ last.kind = "accept" /\ last.pid = DaemonPid /\ last.ec = "ok"
  /\ \E w \in WorkerPids : procs[w].status = "running"

\* C2: an accept that completes with an error while the acceptor is open is
\* logged exactly once, creates no worker and re-arms the accept exactly
\* once, so that one accept is outstanding again, after any number of
\* consecutive errors.
C2_AcceptResilience ==
  (last.kind = "accept" /\ last.ec # "ok" /\ last.wasOpen) =>
     /\ Count(last.trace, "syslog_accept_error") = 1
     /\ Count(last.trace, "do_accept") = 1
     /\ ~last.called_fork
     /\ last.child = NoPid
     /\ procs[last.pid].acceptOps = <<PendingAccept>>

\* A connection is served (a worker forked) right after MaxErrStreak
\* consecutive failed accepts.
C2_Witness ==
  /\ last.kind = "accept" /\ last.ec = "ok"
  /\ last.errsBefore >= 2
  /\ last.child # NoPid
  /\ procs[last.child].status = "running"

\* C3 as stated: every successful accept completion handled with the
\* acceptor open spawns exactly one worker holding that connection, and the
\* accept is re-armed in the same handler invocation.
C3_Original ==
  (last.kind = "accept" /\ last.ec = "ok" /\ last.wasOpen) =>
     /\ last.child # NoPid
     /\ procs[last.child].socket = last.conn
     /\ Count(last.trace, "do_accept") = 1

\* C3 (amended): a successful accept completion handled with the acceptor
\* open calls fork exactly once; when the fork succeeds exactly one process
\* is created, a child of the handling process holding that connection, and
\* when it fails none is; in both cases the same handler invocation re-arms
\* the accept exactly once, so one accept is outstanding before the event
\* loop delivers anything else.
C3_SpawnAndRearm ==
  [][(last'.kind = "accept" /\ last'.ec = "ok" /\ last'.wasOpen) =>
       LET born == {w \in Pids : procs[w].status = "absent"
                                  /\ procs'[w].status # "absent"}
       IN /\ Count(last'.trace, "fork") = 1
          /\ Count(last'.trace, "do_accept") = 1
          /\ IndexOf(last'.trace, "fork") < IndexOf(last'.trace, "do_accept")
          /\ born = (IF last'.fork_ok THEN {last'.child} ELSE {})
          /\ \A w \in born :
               /\ procs'[w].status = "running"
               /\ procs'[w].ppid = last'.pid
               /\ procs'[w].socket = last'.conn
               /\ last'.conn # 0
          /\ procs'[last'.pid].acceptOps = <<PendingAccept>>]_vars

\* A worker was spawned for the connection just accepted and the daemon has
\* its accept outstanding again.
C3_Witness ==
  /\ last.kind = "accept" /\ last.ec = "ok" /\ last.wasOpen
  /\ last.fork_ok
  /\ procs[last.child].socket = last.conn
  /\ procs[last.pid].acceptOps = <<PendingAccept>>

\* C4: between handler invocations a running daemon whose acceptor is open
\* always has an accept outstanding (waiting in the reactor, or completed and
\* waiting for its handler): it is accepting, or its acceptor is closed.
C4_NoGap ==
  \A p \in Pids :
    (procs[p].status = "running" /\ procs[p].ppid = NoPid
       /\ procs[p].acceptorOpen)
      => procs[p].acceptOps # <<>>

\* The daemon has just handled a failed accept and is still listening.
C4_Witness ==
  /\ last.kind = "accept" /\ last.ec = "err" /\ last.pid = DaemonPid
  /\ procs[DaemonPid].acceptorOpen
  /\ procs[DaemonPid].status = "running"
  /\ \E w \in WorkerPids : procs[w].status # "absent"

\* C5: no process ever has more than one accept outstanding: one is armed by
\* the constructor, and afterwards the number of outstanding accepts of a
\* process never grows: only an accept completion handler arms, at most
\* once, after its own operation has been consumed.
C5_SingleAccept ==
  /\ [](/\ \A p \in Pids : Len(procs[p].acceptOps) <= 1
        /\ last.kind = "init" => Len(procs[DaemonPid].acceptOps) = 1
        /\ Count(last.trace, "do_accept") <= 1
        /\ last.kind # "accept" => Count(last.trace, "do_accept") = 0)
  /\ [][\A p \in Pids :
          procs[p].status # "absent" =>
            Len(procs'[p].acceptOps) <= Len(procs[p].acceptOps)]_vars

\* The daemon re-armed its accept after forking a second worker.
C5_Witness ==
  /\ last.kind = "accept" /\ last.fork_ok
  /\ Count(last.trace, "do_accept") = 1
  /\ Len(procs[DaemonPid].acceptOps) = 1
  /\ Cardinality({w \in WorkerPids : procs[w].status # "absent"}) >= 2

Rearms(t) == Count(t, "wait_for_signal") + Count(t, "do_signal_wait")

\* C6: when a process whose acceptor is open handles one SIGCHLD, every
\* child that was a zombie when the handler started is reaped when it
\* returns, however many there were; the handler runs the reap loop once,
\* leaves every process that was not a zombie exactly as it was, and re-arms
\* the signal wait once.
C6_ReapDrain ==
  /\ []((last.kind = "signal" /\ last.sig = "SIGCHLD" /\ last.wasOpen) =>
          /\ \A z \in last.zombiesBefore : procs[z].status = "reaped"
          /\ Count(last.trace, "waitpid_loop") = 1
          /\ Rearms(last.trace) = 1
          /\ Len(procs[last.pid].waitOps) = 1)
  /\ [][last'.kind = "signal" =>
          \A w \in Pids :
            (w # last'.pid /\ procs[w].status # "zombie")
              => procs'[w] = procs[w]]_vars

\* A SIGCHLD handler reaped a terminated worker while another worker was
\* running and stayed so.
C6_Witness ==
  /\ last.kind = "signal" /\ last.sig = "SIGCHLD" /\ last.wasOpen
  /\ last.zombiesBefore # {}
  /\ \A z \in last.zombiesBefore : procs[z].status = "reaped"
  /\ Running(procs, last.pid) # {}

\* C7 as stated: when two workers have terminated and their SIGCHLD has not
\* been handled yet, the daemon does not run an accept completion handler
\* before it has reaped them.
C7_Original ==
  [][(last'.kind = "accept" /\ last'.pid = DaemonPid) =>
       ~(/\ Cardinality(Zombies(procs, DaemonPid)) >= 2
         /\ UnhandledChld(procs[DaemonPid]))]_vars

\* C7 (amended): when two or more workers have terminated before one SIGCHLD
\* is handled by the listening daemon, that single handler invocation reaps
\* all of them; nothing orders it before an accept completion that is ready.
C7_ReapCompleteness ==
  [][(/\ last'.kind = "signal" /\ last'.sig = "SIGCHLD" /\ last'.wasOpen
      /\ Cardinality(Zombies(procs, last'.pid)) >= 2) =>
       /\ Zombies(procs', last'.pid) = {}
       /\ \A z \in Zombies(procs, last'.pid) : procs'[z].status = "reaped"]_vars

\* One SIGCHLD handler invocation has just reaped two workers.
C7_Witness ==
  /\ last.kind = "signal" /\ last.sig = "SIGCHLD" /\ last.pid = DaemonPid
  /\ Cardinality(last.zombiesBefore) >= 2
  /\ \A z \in last.zombiesBefore : procs[z].status = "reaped"

\* C8: no step of a worker runs the reap loop, and in every state of a
\* running worker its signal handler, were it run with any signal, would
\* reap nothing, close nothing, re-arm nothing and leave the worker as it is.
C8_RoleIsolation ==
  /\ IsWorker(last.pid) =>
       /\ Count(last.trace, "waitpid_loop") = 0
       /\ last.kind # "signal"
  /\ \A w \in WorkerPids :
       procs[w].status = "running" =>
         \A sig \in Signals, pick \in Signals \cup {"none"} :
           LET r == signal_handler(procs[w], sig, pick)
           IN /\ ~r.reap
              /\ r.me = procs[w]
              /\ Count(r.trace, "waitpid_loop") = 0
              /\ Count(r.trace, "acceptor_close") = 0
              /\ Rearms(r.trace) = 0

\* The daemon reaps on SIGCHLD while a worker that still has the signal wait
\* it inherited is running.
C8_Witness ==
  /\ last.kind = "signal" /\ last.sig = "SIGCHLD" /\ last.pid = DaemonPid
  /\ Count(last.trace, "waitpid_loop") = 1
  /\ \E w \in WorkerPids :
       procs[w].status = "running" /\ procs[w].waitOps # <<>>

\* C9: a worker has no outstanding accept and a closed acceptor from its
\* first state on, no step of a worker arms an accept or forks, and the
\* child branch of the fork closes the acceptor right after the fork_child
\* notification while the acceptor of the forking process stays open.
C9_WorkerNeverAccepts ==
  /\ \A w \in WorkerPids :
       procs[w].status # "absent" =>
         procs[w].acceptOps = <<>> /\ ~procs[w].acceptorOpen
  /\ IsWorker(last.pid) =>
       Count(last.trace, "do_accept") = 0 /\ ~last.called_fork
  /\ last.child # NoPid =>
       /\ Len(last.childTrace) >= 2
       /\ last.childTrace[1] = "notify_fork_child"
       /\ last.childTrace[2] = "acceptor_close"
       /\ Count(last.childTrace, "do_accept") = 0
       /\ Count(last.childTrace, "fork") = 0
       /\ procs[last.pid].acceptorOpen

\* A worker has just been forked: its acceptor is closed, the daemon's open.
C9_Witness ==
  /\ last.kind = "accept" /\ last.child # NoPid
  /\ ~procs[last.child].acceptorOpen
  /\ procs[last.child].acceptOps = <<>>
  /\ procs[last.pid].acceptorOpen
  /\ procs[last.pid].acceptOps = <<PendingAccept>>

\* C10: every process executes acceptor_.close() at most once: a worker
\* exactly once, in the child branch of the fork, and the server2 daemon
\* exactly once when it handles SIGTERM/SIGINT; the acceptor is open exactly
\* as long as the process has not closed it, a closed acceptor never becomes
\* open again, and close is only ever executed on an open acceptor.
C10_CloseOnce ==
  /\ [](/\ \A p \in Pids :
             /\ procs[p].closes <= 1
             /\ IsWorker(p) => procs[p].closes = 1
             /\ procs[p].status # "absent" =>
                  (procs[p].acceptorOpen <=> procs[p].closes = 0)
        /\ last.child # NoPid => Count(last.childTrace, "acceptor_close") = 1
        /\ (/\ build = "server2" /\ last.kind = "signal"
            /\ last.sig \in {"SIGTERM", "SIGINT"}) =>
             /\ Count(last.trace, "acceptor_close") = 1
             /\ procs[last.pid].closes = 1)
  /\ [][\A p \in Pids :
          procs[p].status # "absent" =>
            /\ ~procs[p].acceptorOpen => ~procs'[p].acceptorOpen
            /\ procs'[p].closes > procs[p].closes => procs[p].acceptorOpen]_vars

\* The daemon closed its acceptor on a termination signal, a worker closed
\* its copy at spawn, and a second signal has been sent since.
C10_Witness ==
  /\ build = "server2"
  /\ procs[DaemonPid].closes = 1 /\ procs[DaemonPid].status = "running"
  /\ \E w \in WorkerPids : procs[w].closes = 1
  /\ sent >= 2


\* C11 as stated: the role the signal handler attributes to a process
\* (Parent iff acceptor_.is_open()) never changes while the process lives.
C11_Original ==
  [][\A p \in Pids :
       (procs[p].status = "running" /\ procs'[p].status = "running")
         => procs'[p].acceptorOpen = procs[p].acceptorOpen]_vars

\* C11 (amended): the attributed role changes at most once and only from
\* Parent to Child (when the server2 daemon closes its acceptor on
\* SIGTERM/SIGINT); a worker is Child from its first state on and a Child
\* never becomes Parent; every invocation of the signal handler finds its
\* process in the Parent role, so no process that was treated as Parent is
\* ever treated as Child afterwards.
C11_RoleStable ==
  /\ [](/\ last.kind = "signal" => last.wasOpen
        /\ last.kind = "signal" =>
             Count(last.trace, "syslog_caught_child") = 0
        /\ \A w \in WorkerPids :
             procs[w].status # "absent" => ~procs[w].acceptorOpen)
  /\ [][\A p \in Pids :
          (procs[p].status # "absent" /\ ~procs[p].acceptorOpen)
            => ~procs'[p].acceptorOpen]_vars

\* The server2 daemon, Parent until now, has closed its acceptor and is still
\* running while a signal sent afterwards waits unhandled.
C11_Witness ==
  /\ build = "server2"
  /\ procs[DaemonPid].status = "running"
  /\ ~procs[DaemonPid].acceptorOpen
  /\ \E s \in Signals : procs[DaemonPid].undelivered[s] > 0

\* C12: in the server2 daemon the handler of SIGTERM/SIGINT closes the
\* acceptor and does not re-arm the signal wait: from then on the daemon has
\* no signal wait outstanding and runs no signal handler again, whatever is
\* sent to it; the handler of SIGCHLD always re-arms the wait exactly once.
C12_NoRearmOnShutdown ==
  /\ [](/\ (/\ build = "server2" /\ last.kind = "signal" /\ last.wasOpen
            /\ last.sig \in {"SIGTERM", "SIGINT"}) =>
             /\ Rearms(last.trace) = 0
             /\ ~procs[last.pid].acceptorOpen
        /\ (build = "server2" /\ procs[DaemonPid].closes > 0) =>
             procs[DaemonPid].waitOps = <<>>
        /\ (/\ build = "server2" /\ last.kind = "signal" /\ last.wasOpen
            /\ last.sig = "SIGCHLD") =>
             /\ Rearms(last.trace) = 1
             /\ Len(procs[last.pid].waitOps) = 1)
  /\ [][(build = "server2" /\ procs[DaemonPid].closes > 0) =>
          ~(last'.kind = "signal" /\ last'.pid = DaemonPid)]_vars

\* After the shutdown handler a second SIGTERM and a SIGCHLD have reached the
\* daemon and stay queued.
C12_Witness ==
  /\ build = "server2"
  /\ procs[DaemonPid].closes = 1 /\ procs[DaemonPid].status = "running"
  /\ procs[DaemonPid].waitOps = <<>>
  /\ procs[DaemonPid].undelivered["SIGTERM"] > 0
  /\ procs[DaemonPid].undelivered["SIGCHLD"] > 0

\* C13: an accept handler that runs when the acceptor is closed logs nothing,
\* arms nothing and forks nothing, whatever the result of the operation; no
\* handler ever calls do_accept and leaves with the acceptor closed, so a
\* process whose acceptor is closed has no accept outstanding once that
\* handler has run.
C13_CleanStop ==
  /\ (last.kind = "accept" /\ ~last.wasOpen) =>
       /\ last.trace = <<>>
       /\ ~last.called_fork
       /\ procs[last.pid].acceptOps = <<>>
  /\ (last.kind = "accept" /\ Count(last.trace, "do_accept") > 0) =>
       /\ last.wasOpen
       /\ procs[last.pid].acceptorOpen
  /\ \A p \in Pids :
       \A i \in 1..Len(procs[p].acceptOps) :
         procs[p].acceptOps[i].st = "pending" => procs[p].acceptorOpen

\* The accept cancelled by the shutdown handler has been handled as a stop.
C13_Witness ==
  /\ build = "server2"
  /\ last.kind = "accept" /\ last.pid = DaemonPid
  /\ last.ec = "aborted" /\ ~last.wasOpen
  /\ procs[DaemonPid].acceptOps = <<>>


\* C16 as stated: a worker reads one framed message from its connection,
\* hands the decoded message to the business logic once, and only then stops
\* its event loop and ends.
C16_Original ==
  (last.kind = "accept" /\ last.child # NoPid) =>
     LET t == last.childTrace
     IN /\ Count(t, "read_message") = 1
        /\ Count(t, "handle_message") = 1
        /\ IndexOf(t, "read_message") < IndexOf(t, "handle_message")
        /\ IndexOf(t, "handle_message") < IndexOf(t, "io_service_stop")

\* What a process does to diverge from the other side of the fork
Diverging ==
  {"acceptor_close", "signals_remove_SIGCHLD", "socket_close", "do_accept",
   "io_service_stop"}

\* C19: a handler that forks calls fork once, right after
\* notify_fork(fork_prepare); the forking process calls
\* notify_fork(fork_parent) right after the fork and the child
\* notify_fork(fork_child) as its first action, each before any diverging
\* action of its side.
C19_ForkNotifications ==
  /\ last.called_fork =>
       LET t == last.trace
           i == IndexOf(t, "fork")
       IN /\ Count(t, "fork") = 1
          /\ i > 1 /\ t[i - 1] = "notify_fork_prepare"
          /\ Count(t, "notify_fork_prepare") = 1
          /\ Len(t) > i /\ t[i + 1] = "notify_fork_parent"
          /\ Count(t, "notify_fork_parent") = 1
          /\ \A j \in 1..Len(t) : t[j] \in Diverging => j > i + 1
  /\ last.child # NoPid =>
       LET t == last.childTrace
       IN /\ Len(t) >= 1 /\ t[1] = "notify_fork_child"
          /\ Count(t, "notify_fork_child") = 1
          /\ \E j \in 1..Len(t) : t[j] \in Diverging
  /\ ~last.called_fork =>
       /\ last.child = NoPid
       /\ Count(last.trace, "notify_fork_prepare") = 0

\* A fork has just made a worker: both sides have notified and diverged.
C19_Witness ==
  /\ last.called_fork /\ last.fork_ok
  /\ procs[last.child].stopped
  /\ ~procs[last.pid].stopped
  /\ IndexOf(last.trace, "notify_fork_parent") = 3
  /\ IndexOf(last.childTrace, "notify_fork_child") = 1

\* C20: the child branch of server2.cpp removes the SIGCHLD registration
\* after closing the acceptor and before stopping its event loop, inside the
\* handler that forked: a server2 worker has no SIGCHLD registration in any
\* state, and the only step a worker ever takes is the end of its run, so no
\* signal handler runs in a worker.
C20_ChildDropsSigchld ==
  /\ (build = "server2" /\ last.child # NoPid) =>
       LET t == last.childTrace
       IN /\ 0 < IndexOf(t, "acceptor_close")
          /\ IndexOf(t, "acceptor_close") < IndexOf(t, "signals_remove_SIGCHLD")
          /\ IndexOf(t, "signals_remove_SIGCHLD") < IndexOf(t, "io_service_stop")
          /\ Count(t, "signals_remove_SIGCHLD") = 1
  /\ \A w \in WorkerPids :
       (build = "server2" /\ procs[w].status # "absent") =>
          /\ "SIGCHLD" \notin procs[w].sigRegs
          /\ procs[w].undelivered["SIGCHLD"] = 0
  /\ IsWorker(last.pid) => last.kind = "run_returns"

\* A server2 worker is running without the SIGCHLD registration while its
\* parent, which keeps it, has a SIGCHLD waiting to be handled.
C20_Witness ==
  /\ build = "server2"
  /\ \E w \in WorkerPids :
       /\ procs[w].status = "running"
       /\ procs[w].sigRegs = {"SIGTERM", "SIGINT"}
  /\ "SIGCHLD" \in procs[DaemonPid].sigRegs
  /\ UnhandledChld(procs[DaemonPid])


\* io_service::run() keeps invoking the handlers that are ready until it is
\* stopped or out of work, and main() returns once run() has returned: in
\* the daemon no handler that is ready, and no return that is due, is
\* postponed forever.  Nothing is assumed about the environment or about the
\* workers.
Fairness ==
  /\ WF_vars(AcceptHandler(DaemonPid))
  /\ WF_vars(SignalHandler(DaemonPid))
  /\ WF_vars(MainSignalHandler(DaemonPid))
  /\ WF_vars(RunReturns(DaemonPid))

\* The same program in a smaller environment, for the properties that need
\* fairness: the environment makes at most LiveConns connections, sends at
\* most LiveSignals signals and fails at most LiveErrStreak accepts in a row.
LiveNext ==
  \/ \E p \in Pids : conns < LiveConns /\ ConnectionArrives(p)
  \/ \E p \in Pids : errStreak < LiveErrStreak /\ AcceptFails(p)
  \/ \E p \in Pids, s \in Signals : sent < LiveSignals /\ SignalArrives(p, s)
  \/ \E p \in Pids : AcceptHandler(p)
  \/ \E p \in Pids : SignalHandler(p)
  \/ \E p \in Pids : MainSignalHandler(p)
  \/ \E p \in Pids : RunReturns(p)

FairSpec == Init /\ [][LiveNext]_vars /\ Fairness

\* C14: once the daemon has handled SIGTERM/SIGINT it eventually ends; the
\* server2 daemon ends with no accept and no signal wait outstanding, its
\* run() having returned for lack of work.  Nothing is required of the
\* workers.
C14_ShutdownTerminates ==
  ShutdownHandled ~>
    (/\ procs[DaemonPid].status = "exited"
     /\ build = "server2" => OutOfWork(procs[DaemonPid]))

\* The daemon has ended after its shutdown while a worker is still running.
C14_Witness ==
  /\ build = "server2"
  /\ ShutdownHandled
  /\ procs[DaemonPid].status = "exited"
  /\ OutOfWork(procs[DaemonPid])
  /\ \E w \in WorkerPids : procs[w].status = "running"


\* C15 as stated: with a port argument that cannot be parsed or cannot be
\* bound, the daemon never has a server object or enters its event loop, and
\* main() returns a nonzero status.
C15_Original ==
  startup.arg \in {"unparsable", "unbindable"} =>
     /\ procs[DaemonPid].status = "absent"
     /\ startup.stage # "serving"
     /\ startup.stage = "returned" => startup.exit \notin {0, NoExit}

\* C17: whatever message the client writes to its connection, the bytes
\* written are the 4-byte little-endian size of the serialized body followed
\* by the body and nothing else.
C17_EnvelopeFraming ==
  codec.pc = 129 =>
    /\ Len(codec.wire) = 4 + GetSize(codec.builder)
    /\ SubSeq(codec.wire, 1, 4) = LittleEndian(Len(codec.wire) - 4, 4)
    /\ SubSeq(codec.wire, 5, Len(codec.wire)) = GetBufferPointer(codec.builder)

\* a frame was written whose body size does not fit in one byte
C17_Witness ==
  /\ codec.pc = 129
  /\ GetSize(codec.builder) > 255
  /\ codec.wire[2] # 0

\* C18: decoding the bytes the client wrote for a message m of Messages
\* (every version, operation code 0..6, user name, proxy user name and
\* payload of the bounded sets) gives m back.
C18_RoundTrip ==
  (codec.pc = 129 /\ codec.decoded # NotDecoded) =>
    codec.decoded = [ok |-> TRUE, msg |-> codec.msg]

\* the message of the source was decoded, and so was one with a negative
\* version, the last operation code and empty strings
C18_Witness ==
  /\ codec.pc = 129
  /\ codec.decoded.ok
  /\ codec.msg.user.name = Kory
  /\ codec.msg.proxy_user.name = Rods
  /\ codec.msg.minimum_protocol_version = 430
  /\ codec.msg.api_number = 0
  /\ Len(codec.msg.payload) = LongPayloadLen

\* The daemon is armed: it runs its event loop with the listening endpoint
\* open.
Armed == CanRun(procs[DaemonPid]) /\ procs[DaemonPid].acceptorOpen

\* w has terminated as a child of the daemon and has not been collected
Terminated(w) ==
  procs[w].status = "zombie" /\ procs[w].ppid = DaemonPid

\* C21: a worker that has terminated while the daemon is armed is eventually
\* reaped, unless the daemon ends (after a shutdown signal); and at no
\* moment is a termination lost, that is, while such a worker is unreaped the
\* armed daemon holds a SIGCHLD notification that it has not handled yet,
\* also when one notification stands for several terminations.
C21_NoZombieLeak ==
  /\ [](\A w \in WorkerPids :
          (Terminated(w) /\ Armed) => UnhandledChld(procs[DaemonPid]))
  /\ \A w \in WorkerPids :
       (Terminated(w) /\ Armed) ~>
         (procs[w].status = "reaped" \/ procs[DaemonPid].status # "running")

\* One SIGCHLD handler has just reaped two workers while the daemon stays
\* armed.
C21_Witness ==
  /\ Armed
  /\ last.kind = "signal"
  /\ last.sig = "SIGCHLD"
  /\ Cardinality(last.zombiesBefore) = 2
  /\ \A w \in last.zombiesBefore : procs[w].status = "reaped"

\* the objects that the table under construction at line pc refers to
Referenced(c) ==
  IF c.pc \in {107, 108} THEN {c.username}
  ELSE IF c.pc \in {111, 112} THEN {c.proxy_username}
  ELSE IF c.pc \in 115..120 THEN {c.user, c.proxy_user, c.payload}
  ELSE {}

\* the builder calls of one message, in order
EncodeOrder ==
  <<"CreateString", "CreateString", "CreateString",
    "StartTable", "EndTable", "StartTable", "EndTable",
    "StartTable", "EndTable", "Finish">>

\* C22: while the client builds a message, no string and no table is
\* created while a table builder is open (the builder never refuses a call,
\* and every StartTable is followed by its EndTable); every object that the
\* open table refers to was completely created before that table was
\* started; the calls are the three strings, the two identity tables, the
\* message table, and the root is finished last.
C22_EncodeOrdering ==
  codec.pc # 0 =>
    LET f == codec.builder
    IN /\ ~f.failed
       /\ Len(f.calls) <= Len(EncodeOrder)
       /\ \A i \in 1..Len(f.calls) : f.calls[i] = EncodeOrder[i]
       /\ f.nested <=> codec.pc \in {107, 108, 111, 112} \cup 115..120
       /\ f.nested => \A o \in Referenced(codec) : o > 0 /\ o <= f.start
       /\ codec.pc \in {124, 129} => f.calls = EncodeOrder

\* the message table is open with its five fields stored, all of them
\* referring to objects that are complete
C22_Witness ==
  /\ codec.pc = 120
  /\ codec.builder.nested
  /\ Len(codec.builder.fields) = 5
  /\ codec.user > 0
  /\ codec.proxy_user > codec.user
  /\ codec.builder.start >= codec.proxy_user

\* C23: when the fork of an accept handler fails, no process is created and
\* no process changes but the one that ran the handler; that process takes
\* the parent's branch and nothing of the child's: its acceptor stays open,
\* its signal registrations stay as they were, its event loop is not
\* stopped, it closes the accepted connection and re-arms the accept, so one
\* accept is outstanding again.
C23_ForkFailure ==
  [][(last'.kind = "accept" /\ last'.called_fork /\ ~last'.fork_ok) =>
       LET p == last'.pid
       IN /\ last'.child = NoPid
          /\ \A q \in Pids \ {p} : procs'[q] = procs[q]
          /\ last'.trace = <<"notify_fork_prepare", "fork",
                             "notify_fork_parent", "socket_close", "do_accept">>
          /\ last'.conn # 0
          /\ procs'[p].status = "running"
          /\ procs[p].acceptorOpen /\ procs'[p].acceptorOpen
          /\ procs'[p].closes = procs[p].closes
          /\ procs'[p].sigRegs = procs[p].sigRegs
          /\ "SIGCHLD" \in procs'[p].sigRegs
          /\ ~procs'[p].stopped
          /\ procs'[p].socket = 0
          /\ procs'[p].acceptOps = <<PendingAccept>>]_vars

\* The fork for the second connection has failed, after the first
\* connection got its worker: the daemon has no worker for the second
\* connection and is accepting again.
C23_Witness ==
  /\ last.kind = "accept" /\ last.called_fork /\ ~last.fork_ok
  /\ last.pid = DaemonPid
  /\ last.conn = 2
  /\ \E w \in WorkerPids : procs[w].socket = 1
  /\ \A w \in WorkerPids : procs[w].socket # 2
  /\ procs[DaemonPid].acceptOps = <<PendingAccept>>

\* p is a daemon (it was not forked by an accept handler)
IsParent(p) == procs[p].status = "running" /\ procs[p].ppid = NoPid

\* the running processes that hold connection c open
Holders(c) == {p \in Pids : procs[p].status = "running" /\ procs[p].socket = c}

\* C24: a daemon whose acceptor is open has its connection slot closed
\* whenever it is between two handlers, so every accept it has outstanding
\* was armed with the slot closed; no connection is open in two running
\* processes; a handler that arms an accept leaves the slot closed, and when
\* it has spawned a worker it closed the slot before re-arming, the worker
\* holds the connection and no other process does.
C24_HandOff ==
  /\ [](/\ \A p \in Pids :
             (IsParent(p) /\ procs[p].acceptorOpen) => procs[p].socket = 0
        /\ \A c \in 1..conns : Cardinality(Holders(c)) <= 1)
  /\ [][(last'.kind = "accept" /\ Count(last'.trace, "do_accept") > 0) =>
          /\ procs'[last'.pid].socket = 0
          /\ procs'[last'.pid].acceptOps = <<PendingAccept>>
          /\ last'.called_fork =>
               /\ Count(last'.trace, "socket_close") = 1
               /\ IndexOf(last'.trace, "socket_close")
                    < IndexOf(last'.trace, "do_accept")
          /\ last'.fork_ok =>
               /\ procs'[last'.child].socket = last'.conn
               /\ \A q \in Pids \ {last'.child} :
                    procs'[q].socket # last'.conn]_vars

\* The daemon has handed its second connection to a worker: the worker holds
\* it, the daemon's slot is closed and its accept is armed again.
C24_Witness ==
  /\ last.kind = "accept" /\ last.pid = DaemonPid /\ last.fork_ok
  /\ last.conn = 2
  /\ Holders(2) = {last.child}
  /\ procs[DaemonPid].socket = 0
  /\ procs[DaemonPid].acceptOps = <<PendingAccept>>

====
